---------------------------- MODULE Spec2Model ----------------------------
(***************************************************************************)
(* Model of the computation layer of v10-fehlerrechnung:                   *)
(*   src/src/data_parser.py    parse_range                                 *)
(*   src/src/error_analysis.py calculate_mu_and_delta_mu,                  *)
(*                             calculate_normal_force_and_delta,           *)
(*                             calculate_std_dev_and_sem,                  *)
(*                             calculate_confidence_interval,              *)
(*                             calculate_error_method_1 / _2               *)
(*                                                                         *)
(* Every function is pure.  The state machine Spec performs one call per   *)
(* behaviour: an action picks the arguments of one function from a bounded *)
(* set, applies the function and records call, arguments and result.  The  *)
(* action ComputeRow does the same for one row of the friction table, from *)
(* the reading and the mass to mu, as src/src/main.py chains the calls.    *)
(*                                                                         *)
(* The state machine MainSpec is one run of a main program (src/main.py or *)
(* src/src/main.py) through its output stage: the export of the table and  *)
(* the plots, each written to a file that may or may not be writable.      *)
(*                                                                         *)
(* Numbers.  A Python float is modelled by an exact real of the form       *)
(*     (n/d) * sqrt(rn/rd)                                                 *)
(* (a rational when rn = rd = 1), so that np.sqrt has an exact result.     *)
(* Floating-point rounding is not modelled.  Besides numbers a value can   *)
(* be the float NaN, the object None, or the string 'nicht betrachtet'.    *)
(* A Python exception is the value kind "TypeError" / "ValueError"; it     *)
(* propagates through every later operation of the same call.              *)
(***************************************************************************)
EXTENDS Integers, Sequences, FiniteSets, TLC

VARIABLES pc, call, arg, ret, entry, step, files, log, written, fatal,
          df_integrated, df_tribologie

\* the state of one call of a function of the computation layer
callVars == <<pc, call, arg, ret>>
\* the state of one run of a main program
mainVars == <<entry, step, files, log, written, fatal, df_integrated, df_tribologie>>
\* the frames of a run: the integrated table that load_and_process_data
\* returned (df in src/main.py, df_integrated in src/src/main.py) and the
\* copy of its Tribologie rows that src/src/main.py computes on
frameVars == <<df_integrated, df_tribologie>>

vars == <<pc, call, arg, ret, entry, step, files, log, written, fatal,
          df_integrated, df_tribologie>>

---------------------------------------------------------------------------
(* Bounds of the model *)

\* longest input string of parse_range, in lexemes
MaxLen == 5
\* longest list of readings / samples handed to the statistics
MaxReadings == 3
\* longest list of samples handed to calculate_std_dev_and_sem
MaxSamples == 4
\* largest sample count N handed to calculate_confidence_interval
MaxN == 8

---------------------------------------------------------------------------
(* Values *)

Abs(x) == IF x < 0 THEN -x ELSE x

RECURSIVE GCD(_, _)
GCD(a, b) == IF b = 0 THEN a ELSE GCD(b, a % b)

\* the rational n/d in lowest terms with a positive denominator (d # 0)
Rat(n, d) ==
    LET s == IF d < 0 THEN -1 ELSE 1
        c == GCD(Abs(n), Abs(d))
    IN  [k |-> "num", n |-> (s * n) \div c, d |-> (s * d) \div c,
         rn |-> 1, rd |-> 1, wide |-> <<>>]

Num(n) == Rat(n, 1)

NaN == [k |-> "nan", n |-> 0, d |-> 1, rn |-> 1, rd |-> 1, wide |-> <<>>]
None == [k |-> "none", n |-> 0, d |-> 1, rn |-> 1, rd |-> 1, wide |-> <<>>]
TypeError == [k |-> "TypeError", n |-> 0, d |-> 1, rn |-> 1, rd |-> 1, wide |-> <<>>]
ValueError == [k |-> "ValueError", n |-> 0, d |-> 1, rn |-> 1, rd |-> 1, wide |-> <<>>]

IsNum(v) == v.k = "num"
IsExc(v) == v.k \in {"TypeError", "ValueError"}
\* pd.isna on a scalar: True for the float NaN and for None
isna(v) == v.k \in {"nan", "none"}
\* "undefined" in the sense of the specification: the not-a-number marker
\* or a missing value
Undefined(v) == v.k \in {"nan", "none"}
Defined(v) == v.k = "num"

Sign(a) == IF a.n > 0 THEN 1 ELSE IF a.n < 0 THEN -1 ELSE 0

(* Wide numbers.  A float holds 6.04296 ** 2 without further ado, while the
   exact fraction of it needs integers beyond the 32 bits of n and d.  A
   number whose fraction does not fit is a wide number: n is its sign and
   wide = <<root, P, Q>> its magnitude, P/Q for root = 1 and sqrt(P/Q) for
   root = 2.  P and Q are natural numbers of any size, written as their
   digits to the base 10000, the least significant first, without a leading
   zero.  P/Q is not reduced: wide numbers are compared with RealEq,
   RealLess and RLt, never as records. *)

IsWide(a) == a.wide # <<>>

\* the number with the sign s and the magnitude m
WideNum(s, m) ==
    [k |-> "num", n |-> IF m[2] = <<>> THEN 0 ELSE s, d |-> 1, rn |-> 1, rd |-> 1,
     wide |-> IF m[2] = <<>> THEN <<>> ELSE m]

RECURSIVE Wide(_, _, _, _)
(* The arithmetic of wide numbers, one operation op at a time.
   On natural numbers (x, y digit sequences, c a carry):
     "nat"     the digits of the integer x >= 0
     "add"     x + y + c
     "scale"   x * y + c, for one digit y
     "sub"     x - y - c, for x >= y + c
     "mul"     x * y
     "prod"    the product of the list x of integers >= 0
     "less"    x < y
   On magnitudes <<root, P, Q>>:
     "widen"   the magnitude of the number x
     "root"    the magnitude x written as a square root
     "times"   x * y
   On numbers:
     "Mul"     x * y
     "Div"     x / y
     "Pow2"    x ** 2
     "Add"     x + y, for rationals
     "Compare" -1, 0 or 1 as |x| is less than, equal to or greater than |y| *)
Wide(op, x, y, c) ==
    CASE op = "nat" ->
            IF x = 0 THEN <<>> ELSE <<x % 10000>> \o Wide("nat", x \div 10000, 0, 0)
      [] op = "add" ->
            IF x = <<>> /\ y = <<>> THEN (IF c = 0 THEN <<>> ELSE <<c>>)
            ELSE LET v == (IF x = <<>> THEN 0 ELSE x[1]) + (IF y = <<>> THEN 0 ELSE y[1]) + c
                 IN  <<v % 10000>>
                     \o Wide("add", IF x = <<>> THEN x ELSE Tail(x),
                                    IF y = <<>> THEN y ELSE Tail(y), v \div 10000)
      [] op = "scale" ->
            IF x = <<>> THEN (IF c = 0 THEN <<>> ELSE <<c>>)
            ELSE <<(x[1] * y + c) % 10000>>
                 \o Wide("scale", Tail(x), y, (x[1] * y + c) \div 10000)
      [] op = "sub" ->
            IF x = <<>> THEN <<>>
            ELSE LET v == x[1] - (IF y = <<>> THEN 0 ELSE y[1]) - c
                     r == Wide("sub", Tail(x), IF y = <<>> THEN y ELSE Tail(y),
                               IF v < 0 THEN 1 ELSE 0)
                 IN  IF r = <<>> /\ v % 10000 = 0 THEN <<>> ELSE <<v % 10000>> \o r
      [] op = "mul" ->
            IF x = <<>> \/ y = <<>> THEN <<>>
            ELSE Wide("add", Wide("scale", x, y[1], 0),
                      <<0>> \o Wide("mul", x, Tail(y), 0), 0)
      [] op = "prod" ->
            IF x = <<>> THEN <<1>>
            ELSE Wide("mul", Wide("nat", x[1], 0, 0), Wide("prod", Tail(x), 0, 0), 0)
      [] op = "less" ->
            IF Len(x) # Len(y) THEN Len(x) < Len(y)
            ELSE IF x = <<>> THEN FALSE
            ELSE IF x[Len(x)] # y[Len(y)] THEN x[Len(x)] < y[Len(y)]
            ELSE Wide("less", SubSeq(x, 1, Len(x) - 1), SubSeq(y, 1, Len(y) - 1), 0)
      [] op = "widen" ->
            IF x.wide # <<>> THEN x.wide
            ELSE IF x.rn = 1 /\ x.rd = 1
            THEN <<1, Wide("nat", IF x.n < 0 THEN -x.n ELSE x.n, 0, 0),
                      Wide("nat", x.d, 0, 0)>>
            ELSE <<2, Wide("prod", <<IF x.n < 0 THEN -x.n ELSE x.n,
                                     IF x.n < 0 THEN -x.n ELSE x.n, x.rn>>, 0, 0),
                      Wide("prod", <<x.d, x.d, x.rd>>, 0, 0)>>
      [] op = "root" ->
            IF x[1] = 2 THEN x
            ELSE <<2, Wide("mul", x[2], x[2], 0), Wide("mul", x[3], x[3], 0)>>
      [] op = "times" ->
            IF x[1] = 1 /\ y[1] = 1
            THEN <<1, Wide("mul", x[2], y[2], 0), Wide("mul", x[3], y[3], 0)>>
            ELSE <<2, Wide("mul", Wide("root", x, 0, 0)[2], Wide("root", y, 0, 0)[2], 0),
                      Wide("mul", Wide("root", x, 0, 0)[3], Wide("root", y, 0, 0)[3], 0)>>
      [] op = "Mul" ->
            WideNum(Sign(x) * Sign(y),
                    Wide("times", Wide("widen", x, 0, 0), Wide("widen", y, 0, 0), 0))
      [] op = "Div" ->
            LET v == Wide("widen", y, 0, 0)
            IN  WideNum(Sign(x) * Sign(y),
                        Wide("times", Wide("widen", x, 0, 0), <<v[1], v[3], v[2]>>, 0))
      [] op = "Pow2" ->
            LET u == Wide("widen", x, 0, 0)
            IN  IF u[1] = 2 THEN WideNum(1, <<1, u[2], u[3]>>)
                ELSE WideNum(1, Wide("times", u, u, 0))
      [] op = "Add" ->
            LET u == Wide("widen", x, 0, 0)
                v == Wide("widen", y, 0, 0)
                p == Wide("mul", u[2], v[3], 0)
                q == Wide("mul", v[2], u[3], 0)
                den == Wide("mul", u[3], v[3], 0)
            IN  IF Sign(x) = 0 THEN y
                ELSE IF Sign(y) = 0 THEN x
                ELSE IF Sign(x) = Sign(y)
                THEN WideNum(Sign(x), <<1, Wide("add", p, q, 0), den>>)
                ELSE IF Wide("less", p, q, 0)
                THEN WideNum(Sign(y), <<1, Wide("sub", q, p, 0), den>>)
                ELSE WideNum(Sign(x), <<1, Wide("sub", p, q, 0), den>>)
      [] op = "Compare" ->
            LET u == Wide("root", Wide("widen", x, 0, 0), 0, 0)
                v == Wide("root", Wide("widen", y, 0, 0), 0, 0)
                l == Wide("mul", u[2], v[3], 0)
                r == Wide("mul", v[2], u[3], 0)
            IN  IF Wide("less", l, r, 0) THEN -1
                ELSE IF Wide("less", r, l, 0) THEN 1
                ELSE 0

\* x * y is an integer of 32 bits
ProductFits(x, y) ==
    x = 0 \/ y = 0
        \/ (IF x < 0 THEN -x ELSE x) <= 2147483647 \div (IF y < 0 THEN -y ELSE y)

\* the result of RatSum or RatProd when it needs more than 32 bits
Overflow == [k |-> "overflow", n |-> 0, d |-> 1, rn |-> 1, rd |-> 1, wide |-> <<>>]

\* a float operand of an arithmetic operator: None makes Python raise
\* TypeError, NaN makes the result NaN
Arith2(a, b, result) ==
    IF IsExc(a) THEN a
    ELSE IF IsExc(b) THEN b
    ELSE IF a.k = "none" \/ b.k = "none" THEN TypeError
    ELSE IF a.k = "nan" \/ b.k = "nan" THEN NaN
    ELSE result

\* (n1/d1) + (n2/d2) over the denominator d1 * d2 / c, c the greatest
\* common divisor of d1 and d2
RatSumOver(n1, d1, n2, d2, c) ==
    IF /\ ProductFits(n1, d2 \div c)
       /\ ProductFits(n2, d1 \div c)
       /\ ProductFits(d1, d2 \div c)
       /\ Abs(n1 * (d2 \div c)) <= 2147483647 - Abs(n2 * (d1 \div c))
    THEN Rat(n1 * (d2 \div c) + n2 * (d1 \div c), d1 * (d2 \div c))
    ELSE Overflow

\* (n1/d1) + (n2/d2) over the least common denominator
RatSum(n1, d1, n2, d2) == RatSumOver(n1, d1, n2, d2, GCD(d1, d2))

\* x * y for two fractions without a common factor across them
RatProdOf(x, y) ==
    IF ProductFits(x.n, y.n) /\ ProductFits(x.d, y.d)
    THEN Rat(x.n * y.n, x.d * y.d)
    ELSE Overflow

\* (n1/d1) * (n2/d2), common factors cancelled before multiplying
RatProd(n1, d1, n2, d2) == RatProdOf(Rat(n1, d2), Rat(n2, d1))

\* -x
Neg(a) == [a EXCEPT !.n = -a.n]

\* the fraction c of a op b, or the wide number when c does not fit
Widened(c, op, a, b) == IF c = Overflow THEN Wide(op, a, b, 0) ELSE c

\* the number c * sqrt(r) of a op b, or the wide number when it does not fit
Rooted(c, r, op, a, b) ==
    IF c = Overflow \/ r = Overflow THEN Wide(op, a, b, 0)
    ELSE [k |-> "num", n |-> c.n, d |-> c.d,
          rn |-> IF c.n = 0 THEN 1 ELSE r.n,
          rd |-> IF c.n = 0 THEN 1 ELSE r.d, wide |-> <<>>]

\* x + y, x - y on rationals
Add(a, b) ==
    Arith2(a, b,
        Widened(IF IsWide(a) \/ IsWide(b) THEN Overflow
                ELSE RatSum(a.n, a.d, b.n, b.d), "Add", a, b))
Sub(a, b) ==
    Arith2(a, b,
        Widened(IF IsWide(a) \/ IsWide(b) THEN Overflow
                ELSE RatSum(a.n, a.d, -b.n, b.d), "Add", a, Neg(b)))

\* x * y; one factor may carry a square root
Mul(a, b) ==
    Arith2(a, b,
        Rooted(IF IsWide(a) \/ IsWide(b) THEN Overflow
               ELSE RatProd(a.n, a.d, b.n, b.d),
               RatProd(a.rn, a.rd, b.rn, b.rd), "Mul", a, b))

\* x / y for y # 0 (every division of the program is by a non-zero value)
Div(a, b) ==
    Arith2(a, b,
        Rooted(IF IsWide(a) \/ IsWide(b) THEN Overflow
               ELSE RatProd(a.n, a.d, b.d, b.n),
               RatProd(a.rn, a.rd, b.rd, b.rn), "Div", a, b))

\* x ** 2
Pow2(a) ==
    IF IsExc(a) THEN a
    ELSE IF a.k = "none" THEN TypeError
    ELSE IF a.k = "nan" THEN NaN
    ELSE Widened(IF IsWide(a) \/ ~ProductFits(a.n, a.n) \/ ~ProductFits(a.d, a.d)
                 THEN Overflow
                 ELSE RatProd(a.n * a.n, a.d * a.d, a.rn, a.rd), "Pow2", a, a)

\* np.sqrt of a rational: NaN for a negative argument
Sqrt(a) ==
    IF IsExc(a) THEN a
    ELSE IF a.k = "none" THEN TypeError
    ELSE IF a.k = "nan" THEN NaN
    ELSE IF a.n < 0 THEN NaN
    ELSE IF a.n = 0 THEN Num(0)
    ELSE IF IsWide(a) THEN [a EXCEPT !.wide = <<2, a.wide[2], a.wide[3]>>]
    ELSE [k |-> "num", n |-> 1, d |-> 1, rn |-> a.n, rd |-> a.d, wide |-> <<>>]

\* comparisons of numbers

\* a = b, a < b and a <= b for numbers a, b >= 0
RealEq(a, b) == Wide("Compare", a, b, 0) = 0
RealLess(a, b) == Wide("Compare", a, b, 0) = -1
RealLe(a, b) == Wide("Compare", a, b, 0) <= 0

\* a < b on rationals
RLt(a, b) ==
    IF ~IsWide(a) /\ ~IsWide(b) /\ ProductFits(a.n, b.d) /\ ProductFits(b.n, a.d)
    THEN a.n * b.d < b.n * a.d
    ELSE IF Sign(a) # Sign(b) THEN Sign(a) < Sign(b)
    ELSE Wide("Compare", a, b, 0) = -Sign(a)
\* numeric equality / order of two numbers (possibly carrying a root)
NumEq(a, b) ==
    /\ Sign(a) = Sign(b)
    /\ RealEq(a, b)
NumLe(a, b) ==
    IF Sign(a) >= 0 /\ Sign(b) >= 0 THEN RealLe(a, b)
    ELSE IF Sign(a) < 0 /\ Sign(b) < 0 THEN RealLe(b, a)
    ELSE Sign(a) < 0
NonNeg(a) == IsNum(a) /\ a.n >= 0

---------------------------------------------------------------------------
(* A call's outcome *)

\* the call returned the tuple vals
Return(vals) == [exc |-> "none", val |-> vals]
\* the call returned the dict d: the one-element tuple holding the record,
\* so that every result is a tuple
ReturnDict(d) == [exc |-> "none", val |-> <<d>>]
\* the call raised
Raise(e) == [exc |-> e, val |-> <<>>]

\* the outcome of a call whose results are vals: an exception in any of
\* them means the call raised it
Outcome(vals) ==
    IF \E i \in DOMAIN vals : IsExc(vals[i])
    THEN Raise(vals[CHOOSE i \in DOMAIN vals : IsExc(vals[i])].k)
    ELSE Return(vals)

\* the same for a call that returns the dict d
OutcomeDict(d) ==
    IF \E i \in DOMAIN d : IsExc(d[i])
    THEN Raise(d[CHOOSE i \in DOMAIN d : IsExc(d[i])].k)
    ELSE ReturnDict(d)

---------------------------------------------------------------------------
(* src/src/data_parser.py: parse_range *)

\* The characters of the input strings that are enumerated.  "nan" stands
\* for the three letters n, a, n as a unit and "x" for any character that is
\* part of no numeral.
Lexemes == {"0", "1", "2", ".", "-", "nan", "x"}
Digits == {"0", "1", "2", "3", "4", "5", "6", "7", "8", "9"}

RECURSIVE SeqsUpTo(_, _)
\* all sequences over S of length at most n
SeqsUpTo(S, n) ==
    IF n = 0 THEN {<<>>}
    ELSE LET shorter == SeqsUpTo(S, n - 1)
         IN  shorter \cup {Append(q, c) : q \in {r \in shorter : Len(r) = n - 1}, c \in S}

Strings == SeqsUpTo(Lexemes, MaxLen)

\* a Python object handed to parse_range: a str, or another object
Str(s) == [t |-> "str", s |-> s, v |-> None]
Obj(v) == [t |-> "obj", s |-> <<>>, v |-> v]

\* '-' in s
HasHyphen(s) == \E i \in 1..Len(s) : s[i] = "-"

RECURSIVE Split(_)
\* s.split('-'): the pieces between the hyphens, empty pieces included
Split(s) ==
    IF ~HasHyphen(s) THEN <<s>>
    ELSE LET i == CHOOSE j \in 1..Len(s) : s[j] = "-" /\ \A h \in 1..(j - 1) : s[h] # "-"
         IN  <<SubSeq(s, 1, i - 1)>> \o Split(SubSeq(s, i + 1, Len(s)))

DigitVal(c) ==
    CASE c = "0" -> 0 [] c = "1" -> 1 [] c = "2" -> 2 [] c = "3" -> 3 [] c = "4" -> 4
      [] c = "5" -> 5 [] c = "6" -> 6 [] c = "7" -> 7 [] c = "8" -> 8 [] c = "9" -> 9

RECURSIVE DigitsVal(_)
\* the digits of s read as one decimal integer, the point skipped
DigitsVal(s) ==
    IF s = <<>> THEN 0
    ELSE LET front == SubSeq(s, 1, Len(s) - 1)
             last == s[Len(s)]
         IN  IF last = "." THEN DigitsVal(front) ELSE 10 * DigitsVal(front) + DigitVal(last)

RECURSIVE Pow10(_)
Pow10(e) == IF e = 0 THEN 1 ELSE 10 * Pow10(e - 1)

\* float(s) on an unsigned string: digits with at most one point and at
\* least one digit, or the word nan; anything else raises ValueError
FloatUnsigned(s) ==
    LET dots == {i \in 1..Len(s) : s[i] = "."}
        digs == {i \in 1..Len(s) : s[i] \in Digits}
    IN  IF s = <<"nan">> THEN NaN
        ELSE IF /\ \A i \in 1..Len(s) : s[i] \in Digits \cup {"."}
                /\ Cardinality(dots) <= 1
                /\ digs # {}
             THEN LET frac == IF dots = {} THEN 0
                              ELSE Len(s) - (CHOOSE i \in dots : TRUE)
                  IN  Rat(DigitsVal(s), Pow10(frac))
        ELSE ValueError

\* float(s) for a str: one optional leading sign, then an unsigned numeral
FloatStr(s) ==
    IF s # <<>> /\ s[1] = "-"
    THEN LET u == FloatUnsigned(SubSeq(s, 2, Len(s)))
         IN  IF IsNum(u) THEN Rat(-u.n, u.d) ELSE u
    ELSE FloatUnsigned(s)

\* float(x): a str is parsed, None raises TypeError, a float is itself
Float(x) ==
    IF x.t = "str" THEN FloatStr(x.s)
    ELSE IF x.v.k = "none" THEN TypeError
    ELSE x.v

RECURSIVE SumSeq(_)
SumSeq(xs) == IF xs = <<>> THEN Num(0) ELSE Add(SumSeq(SubSeq(xs, 1, Len(xs) - 1)), xs[Len(xs)])

\* np.mean of a non-empty list of floats
np_mean(xs) == Div(SumSeq(xs), Num(Len(xs)))

\* x > y and x < y on floats: False when either side is NaN
PyGt(a, b) == IsNum(a) /\ IsNum(b) /\ RLt(b, a)
PyLt(a, b) == IsNum(a) /\ IsNum(b) /\ RLt(a, b)

RECURSIVE PyMax(_)
\* the builtin max: keeps the running maximum unless the next item is greater
PyMax(xs) ==
    IF Len(xs) = 1 THEN xs[1]
    ELSE LET m == PyMax(SubSeq(xs, 1, Len(xs) - 1))
         IN  IF PyGt(xs[Len(xs)], m) THEN xs[Len(xs)] ELSE m

RECURSIVE PyMin(_)
\* the builtin min: keeps the running minimum unless the next item is smaller
PyMin(xs) ==
    IF Len(xs) = 1 THEN xs[1]
    ELSE LET m == PyMin(SubSeq(xs, 1, Len(xs) - 1))
         IN  IF PyLt(xs[Len(xs)], m) THEN xs[Len(xs)] ELSE m

\* a slip: the last part minus the first instead of the largest minus the
\* smallest
HalfRange_LastMinusFirst(parts) == Div(Sub(parts[Len(parts)], parts[1]), Num(2))

\* delta = (max(parts) - min(parts)) / 2
HalfRange(parts) == Div(Sub(PyMax(parts), PyMin(parts)), Num(2))

\* parse_range(s): the pair (avg, delta)
parse_range(x) ==
    IF x.t = "str" /\ HasHyphen(x.s)
    THEN LET pieces == Split(x.s)
             parts == [i \in 1..Len(pieces) |-> FloatStr(pieces[i])]
         IN  IF \E i \in 1..Len(parts) : parts[i] = ValueError
             THEN Return(<<NaN, NaN>>)
             ELSE Outcome(<<np_mean(parts), HalfRange(parts)>>)
    ELSE LET f == Float(x)
         IN  IF f \in {ValueError, TypeError}
             THEN Return(<<NaN, NaN>>)
             ELSE Return(<<f, Num(0)>>)

\* the non-str objects a caller can hand to parse_range: a missing value
\* (None or the float NaN) or a plain number
ParseObjects == {None, NaN, Num(0), Num(2), Rat(-3, 2)}

ParseInputs == {Str(s) : s \in Strings} \cup {Obj(v) : v \in ParseObjects}

---------------------------------------------------------------------------
(* src/src/error_analysis.py *)

\* a slip: g rounded to 9.8
g_Rounded == Rat(98, 10)

\* g = 9.81
g == Rat(981, 100)

\* a slip in term1: the half-width added to 1 / fn_avg, not multiplied
MuTerm1_HalfWidthAdded(fr_delta, fn_avg) == Pow2(Add(Div(Num(1), fn_avg), fr_delta))

\* term1 = (1 / fn_avg * fr_delta)**2
MuTerm1(fr_delta, fn_avg) == Pow2(Mul(Div(Num(1), fn_avg), fr_delta))

\* a slip in term2: the normal force not squared
MuTerm2_FnNotSquared(fr_avg, fn_avg, fn_delta) ==
    Pow2(Mul(Div(fr_avg, fn_avg), fn_delta))

\* term2 = (fr_avg / (fn_avg**2) * fn_delta)**2
MuTerm2(fr_avg, fn_avg, fn_delta) == Pow2(Mul(Div(fr_avg, Pow2(fn_avg)), fn_delta))

\* the guard of calculate_mu_and_delta_mu:
\* pd.isna(fr_avg) or pd.isna(fn_avg) or fn_avg == 0
MuUndefined(fr_avg, fn_avg) == isna(fr_avg) \/ isna(fn_avg) \/ fn_avg = Num(0)

\* calculate_mu_and_delta_mu(df_row), df_row holding the four columns
calculate_mu_and_delta_mu(fr_avg, fr_delta, fn_avg, fn_delta) ==
    IF MuUndefined(fr_avg, fn_avg)
    THEN Return(<<NaN, NaN>>)
    ELSE LET mu_avg == Div(fr_avg, fn_avg)
             term1 == MuTerm1(fr_delta, fn_avg)
             term2 == MuTerm2(fr_avg, fn_avg, fn_delta)
             mu_delta == Sqrt(Add(term1, term2))
         IN  Outcome(<<mu_avg, mu_delta>>)

\* a slip: the half-width converted without the pd.isna test
MassKgDelta_NoIsnaTest(mass_g_delta) == Div(mass_g_delta, Num(1000))

\* mass_kg_delta = mass_g_delta / 1000.0 if not pd.isna(mass_g_delta) else 0.0
MassKgDelta(mass_g_delta) ==
    IF ~isna(mass_g_delta) THEN Div(mass_g_delta, Num(1000)) ELSE Num(0)

\* a slip: the mass of the base block (616 g) added to the mass handed in
FnAvg_BlockMassAdded(mass_g_avg) == Mul(Div(Add(mass_g_avg, Num(616)), Num(1000)), g)

\* a slip: the mass taken in grams, not converted to kilograms
FnAvg_Grams(mass_g_avg) == Mul(mass_g_avg, g)

\* fn_avg = mass_kg_avg * g with mass_kg_avg = mass_g_avg / 1000.0
FnAvg(mass_g_avg) == Mul(Div(mass_g_avg, Num(1000)), g)

\* calculate_normal_force_and_delta(mass_g_avg, mass_g_delta)
calculate_normal_force_and_delta(mass_g_avg, mass_g_delta) ==
    IF isna(mass_g_avg)
    THEN Return(<<NaN, NaN>>)
    ELSE Outcome(<<FnAvg(mass_g_avg), Mul(MassKgDelta(mass_g_delta), g)>>)

\* Series.dropna(): the entries that are neither NaN nor None, in order
dropna(xs) == SelectSeq(xs, LAMBDA v : ~isna(v))

\* a slip: the deviations taken from the first sample, not from the mean
SumSqDev_FromFirstSample(xs, mean_val) ==
    SumSeq([i \in 1..Len(xs) |-> Pow2(Sub(xs[i], xs[1]))])

\* np.sum((data - mean_val)**2)
SumSqDev(xs, mean_val) ==
    SumSeq([i \in 1..Len(xs) |-> Pow2(Sub(xs[i], mean_val))])

\* a slip: the sample form, N - 1 in the denominator
StdDev_SampleForm(xs, N) == Sqrt(Div(SumSqDev(xs, np_mean(xs)), Num(N - 1)))

\* std_dev = np.sqrt(np.sum((data - mean_val)**2) / N)
StdDev(xs, N) == Sqrt(Div(SumSqDev(xs, np_mean(xs)), Num(N)))

\* a slip: the standard deviation not divided by sqrt(N)
Sem_NotDivided(std_dev, N) == std_dev

\* sem = std_dev / np.sqrt(N)
Sem(std_dev, N) == Div(std_dev, Sqrt(Num(N)))

\* a slip: one point taken as enough for a standard deviation
calculate_std_dev_and_sem_OnePointAllowed(data) ==
    LET kept == dropna(data)
        N == Len(kept)
    IN  IF N < 1
        THEN Return(<<NaN, NaN>>)
        ELSE LET std_dev == StdDev(kept, N)
                 sem == Sem(std_dev, N)
             IN  Outcome(<<std_dev, sem>>)

\* calculate_std_dev_and_sem(data)
calculate_std_dev_and_sem(data) ==
    LET kept == dropna(data)
        N == Len(kept)
    IN  IF N < 2
        THEN Return(<<NaN, NaN>>)
        ELSE LET std_dev == StdDev(kept, N)
                 sem == Sem(std_dev, N)
             IN  Outcome(<<std_dev, sem>>)

\* scipy.stats.t.ppf(q, df), q in thousandths: the quantiles of Student's t
\* to three decimals, as tabulated
TTable ==
    [q \in {950, 975, 995} |->
        CASE q = 950 -> <<6314, 2920, 2353, 2132, 2015, 1943, 1895, 1860, 1833, 1812, 1796, 1782>>
          [] q = 975 -> <<12706, 4303, 3182, 2776, 2571, 2447, 2365, 2306, 2262, 2228, 2201, 2179>>
          [] q = 995 -> <<63657, 9925, 5841, 4604, 4032, 3707, 3499, 3355, 3250, 3169, 3106, 3055>>]

\* a slip: the quantile of 0.975 whatever the level
t_ppf_LevelIgnored(q, df) == Rat(TTable[975][df], 1000)

t_ppf(q, df) == Rat(TTable[q][df], 1000)

\* (1 + confidence_level) / 2 in thousandths, confidence_level in percent
Quantile(confidence_level) == (100 + confidence_level) * 5

\* a slip: N taken as the degrees of freedom
calculate_confidence_interval_DfIsN(sem, N, confidence_level) ==
    IF N < 2
    THEN Return(<<NaN>>)
    ELSE LET degrees_freedom == N
             t_factor == t_ppf(Quantile(confidence_level), degrees_freedom)
         IN  Outcome(<<Mul(t_factor, sem)>>)

\* calculate_confidence_interval(sem, N, confidence_level)
calculate_confidence_interval(sem, N, confidence_level) ==
    IF N < 2
    THEN Return(<<NaN>>)
    ELSE LET degrees_freedom == N - 1
             t_factor == t_ppf(Quantile(confidence_level), degrees_freedom)
         IN  Outcome(<<Mul(t_factor, sem)>>)

\* get_t_factor(N, confidence_level)
get_t_factor(N, confidence_level) ==
    IF N < 2
    THEN Return(<<NaN>>)
    ELSE Return(<<t_ppf(Quantile(confidence_level), N - 1)>>)

\* a slip: the lower endpoint of every reading pooled twice
Flatten_LowerTwice(fr_values) ==
    [i \in 1..(2 * Len(fr_values)) |-> fr_values[(i + 1) \div 2][1]]

RECURSIVE Flatten(_)
\* all_measurements: lower and upper of every reading, in order
Flatten(fr_values) ==
    IF fr_values = <<>> THEN <<>>
    ELSE <<fr_values[1][1], fr_values[1][2]>> \o Flatten(Tail(fr_values))

\* a slip: the readings counted instead of their endpoints
Method1N_Readings(data_series) == Len(data_series) \div 2

\* the sample count that calculate_error_method_1 hands to
\* calculate_confidence_interval
Method1N(data_series) == Len(data_series)

\* calculate_error_method_1(fr_values)
calculate_error_method_1(fr_values) ==
    LET data_series == dropna(Flatten(fr_values))
        N == Len(data_series)
    IN  IF N < 2
        THEN ReturnDict([mean_fr |-> NaN, std_dev_fr |-> NaN, sem_fr |-> NaN, c95_fr |-> NaN])
        ELSE LET mean_fr == np_mean(data_series)
                 ss == calculate_std_dev_and_sem(data_series)
                 c95 == calculate_confidence_interval(ss.val[2], Method1N(data_series), 95)
             IN  OutcomeDict([mean_fr |-> mean_fr, std_dev_fr |-> ss.val[1],
                              sem_fr |-> ss.val[2], c95_fr |-> c95.val[1]])

\* the marker of the statistics Policy B leaves out
NichtBetrachtet ==
    [k |-> "nicht betrachtet", n |-> 0, d |-> 1, rn |-> 1, rd |-> 1, wide |-> <<>>]

\* the readings calculate_error_method_2 keeps: both endpoints defined
FullyDefined(r) == ~(isna(r[1]) \/ isna(r[2]))

\* ranges.append(upper - lower)
RangeOf(r) == Sub(r[2], r[1])

\* a slip: the sum of the endpoints not halved
MidpointOf_NotHalved(r) == Add(r[1], r[2])

\* midpoints.append((lower + upper) / 2)
MidpointOf(r) == Div(Add(r[1], r[2]), Num(2))

\* a slip: the narrowest range taken instead of the widest
DeltaFr_SmallestRange(ranges) == Div(PyMin(ranges), Num(2))

\* delta_fr = max(ranges) / 2
DeltaFr(ranges) == Div(PyMax(ranges), Num(2))

\* calculate_error_method_2(fr_interval_ranges)
calculate_error_method_2(fr_interval_ranges) ==
    LET kept == SelectSeq(fr_interval_ranges, FullyDefined)
        midpoints == [i \in 1..Len(kept) |-> MidpointOf(kept[i])]
        ranges == [i \in 1..Len(kept) |-> RangeOf(kept[i])]
    IN  IF midpoints = <<>>
        THEN ReturnDict([mean_fr |-> NaN, delta_fr |-> NaN])
        ELSE OutcomeDict([mean_fr |-> np_mean(midpoints),
                          delta_fr |-> DeltaFr(ranges),
                          std_dev_fr |-> NichtBetrachtet,
                          sem_fr |-> NichtBetrachtet,
                          c95_fr |-> NichtBetrachtet])

---------------------------------------------------------------------------
(* The arguments the calls are made with *)

\* force centers and half-widths handed to calculate_mu_and_delta_mu
ForceValues == {None, NaN, Num(-2), Num(0), Rat(1, 2), Num(3)}

\* masses in grams handed to calculate_normal_force_and_delta
MassValues == {None, NaN, Num(-5), Num(0), Rat(1, 10), Num(5), Num(616), Num(771)}

\* samples handed to calculate_std_dev_and_sem
SampleValues == {None, NaN, Num(1), Num(2), Num(4)}

\* standard errors, counts and levels handed to calculate_confidence_interval
SemValues == {None, NaN, Num(-1), Num(0), Rat(1, 2), Num(3)}
Levels == {90, 95, 99}

\* readings (lower, upper) handed to the two aggregation policies; among
\* them the readings 3.0-3.3 and 2.95-3.4, readings far apart from each
\* other, a reading with its endpoints swapped, and readings with a missing
\* endpoint
FrReadings ==
    { <<Num(3), Rat(33, 10)>>, <<Rat(59, 20), Rat(17, 5)>>,
      <<Num(1), Num(1)>>, <<Num(1), Num(2)>>, <<Num(2), Num(2)>>,
      <<Num(0), Num(3)>>, <<Num(0), Num(4)>>, <<Num(10), Num(13)>>,
      <<Num(4), Num(1)>>,
      <<NaN, Num(2)>>, <<Num(1), None>>, <<NaN, NaN>> }

---------------------------------------------------------------------------
(* One row of the friction table: from the reading and the mass to mu *)

\* the Kraft_N_Range entries of friction_data_raw
KraftRanges ==
    { <<"3", "0", "-", "3", ".", "3">>,
      <<"2", ".", "6", "-", "3", ".", "1">>,
      <<"2", ".", "3", "5", "-", "2", ".", "8">>,
      <<"2", ".", "0", "-", "2", ".", "4">>,
      <<"1", ".", "6", "5", "-", "1", ".", "9">>,
      <<"2", ".", "9", "5", "-", "3", ".", "4">>,
      <<"2", ".", "6", "5", "-", "3", ".", "1">>,
      <<"2", ".", "7", "5", "-", "2", ".", "8">>,
      <<"4", ".", "1", "5", "-", "4", ".", "2", "5">>,
      <<"3", ".", "5", "5", "-", "3", ".", "7", "5">>,
      <<"3", ".", "2", "5", "-", "3", ".", "4">>,
      <<"2", ".", "8", "-", "2", ".", "9", "5">>,
      <<"2", ".", "3", "-", "2", ".", "4", "5">>,
      <<"3", ".", "9", "-", "4", ".", "0", "5">>,
      <<"3", ".", "6", "-", "3", ".", "8">>,
      <<"2", ".", "8", "-", "3", ".", "0">>,
      <<"4", ".", "0", "-", "4", ".", "1", "5">>,
      <<"3", ".", "6", "5", "-", "3", ".", "8", "5">> }

\* mass_config_mapping: the mass of a block configuration and its half-width
mass_config_mapping ==
    [c \in {"B", "B+1", "B+1+2", "B+1+2+3", "B+1+2+3+4"} |->
        CASE c = "B" -> <<Num(616), Num(5)>>
          [] c = "B+1" -> <<Num(616 + 155), Num(7)>>
          [] c = "B+1+2" -> <<Num(616 + 2 * 155), Num(10)>>
          [] c = "B+1+2+3" -> <<Num(616 + 3 * 155), Num(12)>>
          [] c = "B+1+2+3+4" -> <<Num(616 + 4 * 155), Num(15)>>]

\* The masses of a row, in grams: those of the mapping, NaN for a
\* configuration the mapping does not hold, and the base block weighed to
\* a tenth of a gram.
RowMasses ==
    {mass_config_mapping[c] : c \in DOMAIN mass_config_mapping}
        \cup {<<NaN, NaN>>, <<Num(616), Rat(1, 10)>>}

\* final_combined_df.replace({np.nan: None})
ReplaceNaN(v) == IF v.k = "nan" THEN None ELSE v

\* the reading of a row as load_and_process_data returns it
Messwert(parsed) ==
    IF parsed.exc # "none" THEN parsed
    ELSE Return(<<ReplaceNaN(parsed.val[1]), ReplaceNaN(parsed.val[2])>>)

\* the columns of a row, or the exception that one of the calls raised
RowColumns(Fr, Fn, mu) ==
    IF Fr.exc # "none" THEN Fr
    ELSE IF Fn.exc # "none" THEN Fn
    ELSE IF mu.exc # "none" THEN mu
    ELSE Return(<<Fr.val[1], Fr.val[2], Fn.val[1], Fn.val[2], mu.val[1], mu.val[2]>>)

\* mu of a row with the reading Fr and the normal force Fn
RowMu(Fr, Fn) ==
    RowColumns(Fr, Fn,
        calculate_mu_and_delta_mu(Fr.val[1], Fr.val[2], Fn.val[1], Fn.val[2]))

\* The derived columns of one row, as load_and_process_data and main compute
\* them: <<Fr_avg, Fr_delta, Fn_avg, Fn_delta, mu_avg, mu_delta>>
friction_row(Kraft_N_Range, Mass_g_Avg, Mass_g_Delta) ==
    RowMu(Messwert(parse_range(Str(Kraft_N_Range))),
          calculate_normal_force_and_delta(Mass_g_Avg, Mass_g_Delta))

---------------------------------------------------------------------------
(* src/src/error_analysis.py: error_analysis_example *)

\* The Kraft_N_Range entries of the rows M1, M2, M3 of a group (Material,
\* Block_Config) of friction_data_raw: the group the example is written for
\* (Weiss, B+1+2+3+4) and the groups for which line 258 announces the same
\* example.
FrictionGroups ==
    {
      \* Weiss, B+1+2+3+4
      << <<"3", "0", "-", "3", ".", "3">>,
         <<"2", ".", "9", "5", "-", "3", ".", "4">>,
         <<"2", ".", "9", "5", "-", "3", ".", "4">> >>,
      \* Weiss, B+1+2+3
      << <<"2", ".", "6", "-", "3", ".", "1">>,
         <<"2", ".", "6", "5", "-", "3", ".", "1">>,
         <<"2", ".", "6", "5", "-", "3", ".", "1">> >>,
      \* Weiss, B+1+2
      << <<"2", ".", "3", "5", "-", "2", ".", "8">>,
         <<"2", ".", "7", "5", "-", "2", ".", "8">>,
         <<"2", ".", "7", "5", "-", "2", ".", "8">> >>,
      \* Weiss, B+1
      << <<"2", ".", "0", "-", "2", ".", "4">>,
         <<"2", ".", "0", "-", "2", ".", "4">>,
         <<"2", ".", "0", "-", "2", ".", "4">> >>,
      \* Weiss, B
      << <<"1", ".", "6", "5", "-", "1", ".", "9">>,
         <<"1", ".", "6", "5", "-", "1", ".", "9">>,
         <<"1", ".", "6", "5", "-", "1", ".", "9">> >>,
      \* Schwarz, B+1+2+3+4
      << <<"4", ".", "1", "5", "-", "4", ".", "2", "5">>,
         <<"3", ".", "9", "-", "4", ".", "0", "5">>,
         <<"4", ".", "0", "-", "4", ".", "1", "5">> >>,
      \* Schwarz, B+1+2+3
      << <<"3", ".", "5", "5", "-", "3", ".", "7", "5">>,
         <<"3", ".", "6", "-", "3", ".", "8">>,
         <<"3", ".", "6", "5", "-", "3", ".", "8", "5">> >>,
      \* Schwarz, B+1+2
      << <<"3", ".", "2", "5", "-", "3", ".", "4">>,
         <<"3", ".", "2", "5", "-", "3", ".", "4">>,
         <<"3", ".", "2", "5", "-", "3", ".", "4">> >>,
      \* Schwarz, B+1
      << <<"2", ".", "8", "-", "2", ".", "9", "5">>,
         <<"2", ".", "8", "-", "3", ".", "0">>,
         <<"2", ".", "8", "-", "3", ".", "0">> >>,
      \* Schwarz, B
      << <<"2", ".", "3", "-", "2", ".", "4", "5">>,
         <<"2", ".", "3", "-", "2", ".", "4", "5">>,
         <<"2", ".", "3", "-", "2", ".", "4", "5">> >> }

\* Messwert_Avg and Messwert_Delta of the rows M1, M2, M3 of a group
GroupRows(group) ==
    [i \in 1..3 |-> Messwert(parse_range(Str(group[i]))).val]

\* fr_intervals: (Messwert_Avg - Messwert_Delta, Messwert_Avg + Messwert_Delta)
\* of M1, M2, M3
fr_intervals(rows) ==
    [i \in 1..3 |-> <<Sub(rows[i][1], rows[i][2]), Add(rows[i][1], rows[i][2])>>]

\* all_midpoints = [m1_avg, m2_avg, m3_avg]
all_midpoints(rows) == [i \in 1..3 |-> rows[i][1]]

\* all_deltas = [m1_delta, m2_delta, m3_delta]
all_deltas(rows) == [i \in 1..3 |-> rows[i][2]]

\* a slip: the half-widths averaged instead of the largest taken
ExampleDeltaFr_Averaged(deltas) == np_mean(deltas)

\* delta_fr = max(all_deltas)
ExampleDeltaFr(deltas) == PyMax(deltas)

\* fn_avg_placeholder = 10.0, fn_delta_placeholder = 0.5
fn_avg_placeholder == Num(10)
fn_delta_placeholder == Rat(1, 2)

\* the values the example prints: <<avg_fr, delta_fr, mu_avg, mu_delta>>,
\* or the exception that building fr_intervals or computing mu raised
ExampleValues(intervals, avg_fr, delta_fr, mu) ==
    IF \E i \in 1..3 : IsExc(intervals[i][1]) \/ IsExc(intervals[i][2])
    THEN Outcome(<<intervals[1][1], intervals[1][2], intervals[2][1],
                   intervals[2][2], intervals[3][1], intervals[3][2]>>)
    ELSE IF mu.exc # "none" THEN mu
    ELSE Outcome(<<avg_fr, delta_fr, mu.val[1], mu.val[2]>>)

\* the example for the friction force avg_fr, delta_fr
ExampleMu(intervals, avg_fr, delta_fr) ==
    ExampleValues(intervals, avg_fr, delta_fr,
        calculate_mu_and_delta_mu(avg_fr, delta_fr,
                                  fn_avg_placeholder, fn_delta_placeholder))

\* error_analysis_example(df) for the rows M1, M2, M3 of the group
error_analysis_example(rows) ==
    ExampleMu(fr_intervals(rows), np_mean(all_midpoints(rows)),
              ExampleDeltaFr(all_deltas(rows)))

---------------------------------------------------------------------------
(* The state machine: one call of one function *)

\* no call made yet
NoCall ==
    /\ pc = "ready"
    /\ call = "none"
    /\ arg = <<>>
    /\ ret = Return(<<>>)

\* no main program running
NoRun ==
    /\ entry = "none"
    /\ step = 0
    /\ files = <<>>
    /\ log = <<>>
    /\ written = {}
    /\ fatal = "none"
    /\ df_integrated = <<>>
    /\ df_tribologie = <<>>

Init == NoCall /\ NoRun

CallParseRange ==
    /\ pc = "ready"
    /\ \E x \in ParseInputs :
        /\ call' = "parse_range"
        /\ arg' = x
        /\ ret' = parse_range(x)
    /\ pc' = "done"
    /\ UNCHANGED mainVars

CallMu ==
    /\ pc = "ready"
    /\ \E fr_avg \in ForceValues, fr_delta \in ForceValues,
          fn_avg \in ForceValues, fn_delta \in ForceValues :
        /\ call' = "calculate_mu_and_delta_mu"
        /\ arg' = [Fr_avg |-> fr_avg, Fr_delta |-> fr_delta,
                   Fn_avg |-> fn_avg, Fn_delta |-> fn_delta]
        /\ ret' = calculate_mu_and_delta_mu(fr_avg, fr_delta, fn_avg, fn_delta)
    /\ pc' = "done"
    /\ UNCHANGED mainVars

CallNormalForce ==
    /\ pc = "ready"
    /\ \E m \in MassValues, dm \in MassValues :
        /\ call' = "calculate_normal_force_and_delta"
        /\ arg' = <<m, dm>>
        /\ ret' = calculate_normal_force_and_delta(m, dm)
    /\ pc' = "done"
    /\ UNCHANGED mainVars

CallStdDevSem ==
    /\ pc = "ready"
    /\ \E data \in SeqsUpTo(SampleValues, MaxSamples) :
        /\ call' = "calculate_std_dev_and_sem"
        /\ arg' = data
        /\ ret' = calculate_std_dev_and_sem(data)
    /\ pc' = "done"
    /\ UNCHANGED mainVars

CallConfidenceInterval ==
    /\ pc = "ready"
    /\ \E sem \in SemValues, N \in 0..MaxN, level \in Levels :
        /\ call' = "calculate_confidence_interval"
        /\ arg' = [sem |-> sem, N |-> N, confidence_level |-> level]
        /\ ret' = calculate_confidence_interval(sem, N, level)
    /\ pc' = "done"
    /\ UNCHANGED mainVars

CallGetTFactor ==
    /\ pc = "ready"
    /\ \E N \in 0..MaxN, level \in Levels :
        /\ call' = "get_t_factor"
        /\ arg' = [N |-> N, confidence_level |-> level]
        /\ ret' = get_t_factor(N, level)
    /\ pc' = "done"
    /\ UNCHANGED mainVars

CallMethod1 ==
    /\ pc = "ready"
    /\ \E fr_values \in SeqsUpTo(FrReadings, MaxReadings) :
        /\ call' = "calculate_error_method_1"
        /\ arg' = fr_values
        /\ ret' = calculate_error_method_1(fr_values)
    /\ pc' = "done"
    /\ UNCHANGED mainVars

CallMethod2 ==
    /\ pc = "ready"
    /\ \E fr_values \in SeqsUpTo(FrReadings, MaxReadings) :
        /\ call' = "calculate_error_method_2"
        /\ arg' = fr_values
        /\ ret' = calculate_error_method_2(fr_values)
    /\ pc' = "done"
    /\ UNCHANGED mainVars

ComputeRow ==
    /\ pc = "ready"
    /\ \E range \in KraftRanges, mass \in RowMasses :
        /\ call' = "main"
        /\ arg' = [Kraft_N_Range |-> range, Mass_g_Avg |-> mass[1],
                   Mass_g_Delta |-> mass[2]]
        /\ ret' = friction_row(range, mass[1], mass[2])
    /\ pc' = "done"
    /\ UNCHANGED mainVars

RunExample ==
    /\ pc = "ready"
    /\ \E group \in FrictionGroups :
        /\ call' = "error_analysis_example"
        /\ arg' = group
        /\ ret' = error_analysis_example(GroupRows(group))
    /\ pc' = "done"
    /\ UNCHANGED mainVars

Next ==
    \/ CallParseRange
    \/ CallMu
    \/ CallNormalForce
    \/ CallStdDevSem
    \/ CallConfidenceInterval
    \/ CallGetTFactor
    \/ CallMethod1
    \/ CallMethod2
    \/ ComputeRow
    \/ RunExample

Spec == Init /\ [][Next]_vars

---------------------------------------------------------------------------
(* The frames of the two main programs *)

\* a row of the integrated table: the columns Versuch, Block_Config and the
\* reading as load_and_process_data reduces it
IntegratedRow(versuch, block_config, range) ==
    [Versuch |-> versuch, Block_Config |-> block_config,
     Messwert_Avg |-> Messwert(parse_range(Str(range))).val[1],
     Messwert_Delta |-> Messwert(parse_range(Str(range))).val[2]]

\* Integrated tables of two or three rows of the three experiments of
\* load_and_process_data, each with rows of the experiment Tribologie,
\* among them the row of the reading '30-3.3'
Tables ==
    { << IntegratedRow("Tribologie", "B+1+2+3+4", <<"3", "0", "-", "3", ".", "3">>),
         IntegratedRow("Tribologie", "B", <<"1", ".", "6", "5", "-", "1", ".", "9">>),
         IntegratedRow("Grosse_Flaeche_Spannung", "None", <<"1", ".", "5", "-", "1", ".", "9">>) >>,
      << IntegratedRow("Kleine_Flaeche_Messung", "None", <<"1", ".", "7", "-", "1", ".", "9">>),
         IntegratedRow("Tribologie", "B+1+2", <<"2", ".", "7", "5", "-", "2", ".", "8">>) >>,
      << IntegratedRow("Tribologie", "B+1", <<"2", ".", "0", "-", "2", ".", "4">>),
         IntegratedRow("Tribologie", "B+1+2+3", <<"2", ".", "6", "5", "-", "3", ".", "1">>) >>,
      << IntegratedRow("Kleine_Flaeche_Messung", "None", <<"0", ".", "9", "5", "-", "1", ".", "0">>),
         IntegratedRow("Tribologie", "B+1+2+3+4", <<"2", ".", "9", "5", "-", "3", ".", "4">>),
         IntegratedRow("Grosse_Flaeche_Spannung", "None", <<"1", ".", "4", "5", "-", "2", ".", "5">>) >> }

\* frame[names] = values on one row: the named columns are set, every other
\* column keeps its value
SetColumns(row, names, values) ==
    [c \in DOMAIN row \cup {names[i] : i \in DOMAIN names} |->
        IF \E i \in DOMAIN names : names[i] = c
        THEN values[CHOOSE i \in DOMAIN names : names[i] = c]
        ELSE row[c]]

\* df_integrated[df_integrated['Versuch'] == 'Tribologie'].copy()
TribologieCopy(frame) == SelectSeq(frame, LAMBDA row : row.Versuch = "Tribologie")

\* mass_config_mapping.get(x, {}).get('mass_g_avg', np.nan) and the same
\* for 'mass_g_delta'
MassOf(block_config) ==
    IF block_config \in DOMAIN mass_config_mapping
    THEN mass_config_mapping[block_config]
    ELSE <<NaN, NaN>>

\* the values of Fr, Fn and mu of a row of df_tribologie
RowPhysics(row) ==
    RowMu(Return(<<row.Messwert_Avg, row.Messwert_Delta>>),
          calculate_normal_force_and_delta(MassOf(row.Block_Config)[1],
                                           MassOf(row.Block_Config)[2]))

\* the exception of the first row whose computation raises
FirstRowError(frame) ==
    RowPhysics(frame[CHOOSE i \in 1..Len(frame) :
                        /\ RowPhysics(frame[i]).exc # "none"
                        /\ \A j \in 1..(i - 1) : RowPhysics(frame[j]).exc = "none"]).exc

\* a slip: mu written into the columns of the reading
MuColumns_OverReading == <<"Messwert_Avg", "Messwert_Delta">>

\* df_tribologie[['mu_avg', 'mu_delta']] = ...
MuColumns == <<"mu_avg", "mu_delta">>

\* the columns that steps 2 and 3 of src/src/main.py assign, in the order
\* of the assignments
DerivedColumns ==
    <<"Mass_g_Avg", "Mass_g_Delta", "Fn_avg", "Fn_delta", "Fr_avg", "Fr_delta">>
        \o MuColumns

\* the values assigned to them
DerivedValues(row, physics) ==
    <<MassOf(row.Block_Config)[1], MassOf(row.Block_Config)[2],
      physics[3], physics[4], physics[1], physics[2], physics[5], physics[6]>>

\* a row of df_tribologie after steps 2 and 3
WithDerivedColumns(row) ==
    SetColumns(row, DerivedColumns, DerivedValues(row, RowPhysics(row).val))

\* what calculate_mass_from_config, which src/ does not hold, may return
\* for a row: a mass and its half-width, or nothing usable
MassResults == {<<NaN, NaN>>, <<Num(616), Num(5)>>}

\* what calculate_physics, which src/ does not hold, may return for a row:
\* the columns Fn_avg, Fn_delta, mu_avg, mu_delta that main() prints
PhysicsResults ==
    { <<NaN, NaN, NaN, NaN>>,
      <<Rat(604296, 100000), Rat(4905, 100000), Rat(1, 4), Rat(1, 50)>> }

\* df['Mass_g_Avg'], df['Mass_g_Delta'] = ...; df = df.join(...)
PhysicsJoined(row, mass, physics) ==
    SetColumns(row, <<"Mass_g_Avg", "Mass_g_Delta", "Fn_avg", "Fn_delta", "mu_avg", "mu_delta">>,
               <<mass[1], mass[2], physics[1], physics[2], physics[3], physics[4]>>)

---------------------------------------------------------------------------
(* The output stage of the two main programs *)

Entries == {"src/main.py", "src/src/main.py"}

\* the steps of main() in program order
Steps(e) ==
    IF e = "src/main.py"
    THEN <<"load", "physics", "export", "plot", "plot", "plot", "example">>
    ELSE <<"load", "export", "physics", "plot", "plot", "plot", "example">>

\* the file df.to_csv writes
CsvFile(e) ==
    IF e = "src/main.py" THEN "data/processed_data.csv"
    ELSE "data/integrated_experiment_data.csv"

\* the files the three plot calls write, in program order
PlotFiles(e) ==
    IF e = "src/main.py"
    THEN <<"plots/mu_vs_normal_force.png", "plots/mu_vs_voltage.png", "plots/mu_vs_area.png">>
    ELSE <<"plots/mu_vs_normal_force.png", "plots/mu_vs_normal_area.png", "plots/mu_vs_voltage.png">>

OutputFiles(e) == {CsvFile(e)} \cup {PlotFiles(e)[i] : i \in 1..3}

\* what the file system does when a file is written: it takes the file, or
\* the file is open elsewhere, or the device is full
FileConditions == {"writable", "in use", "no space"}

\* the exception a write raises
WriteError(condition) ==
    IF condition = "in use" THEN "PermissionError" ELSE "OSError"

\* the exceptions the export of an entry point catches: src/main.py has
\* 'except PermissionError', src/src/main.py has no try
Caught(e, exc) == e = "src/main.py" /\ exc = "PermissionError"

\* the number of plot steps before step i
PlotsBefore(e, i) == Cardinality({j \in 1..(i - 1) : Steps(e)[j] = "plot"})

Running == entry \in Entries /\ fatal = "none" /\ step <= Len(Steps(entry))
AtStep(name) == Running /\ Steps(entry)[step] = name

MainInit ==
    /\ NoCall
    /\ entry \in Entries
    /\ step = 1
    /\ files \in [OutputFiles(entry) -> FileConditions]
    /\ log = <<>>
    /\ written = {}
    /\ fatal = "none"
    /\ df_integrated = <<>>
    /\ df_tribologie = <<>>

\* df = load_and_process_data()
LoadData ==
    /\ AtStep("load")
    /\ df_integrated' \in Tables
    /\ log' = Append(log, "Step 1")
    /\ step' = step + 1
    /\ UNCHANGED <<entry, files, written, fatal, df_tribologie>>
    /\ UNCHANGED callVars

\* src/main.py: mass, normal force and mu of every row; the columns are
\* added to df, and df.join returns the frame that df then names
ComputePhysicsOfTable ==
    /\ AtStep("physics")
    /\ entry = "src/main.py"
    /\ \E mass \in MassResults, physics \in PhysicsResults :
           df_integrated' = [i \in 1..Len(df_integrated) |->
                                PhysicsJoined(df_integrated[i], mass, physics)]
    /\ log' = Append(log, "Step 2")
    /\ step' = step + 1
    /\ UNCHANGED <<entry, files, written, fatal, df_tribologie>>
    /\ UNCHANGED callVars

\* src/src/main.py: mass, normal force and mu of every row of the copy
\* df_tribologie of the Tribologie rows
ComputePhysicsOfCopy ==
    /\ AtStep("physics")
    /\ entry = "src/src/main.py"
    /\ IF \E i \in 1..Len(TribologieCopy(df_integrated)) :
              RowPhysics(TribologieCopy(df_integrated)[i]).exc # "none"
       THEN /\ fatal' = FirstRowError(TribologieCopy(df_integrated))
            /\ UNCHANGED <<log, step, df_tribologie>>
       ELSE /\ df_tribologie' = [i \in 1..Len(TribologieCopy(df_integrated)) |->
                                    WithDerivedColumns(TribologieCopy(df_integrated)[i])]
            /\ log' = Append(log, "Step 2")
            /\ step' = step + 1
            /\ fatal' = fatal
    /\ UNCHANGED <<entry, files, written, df_integrated>>
    /\ UNCHANGED callVars

\* df.to_csv(path, index=False), in src/main.py inside try / except
\* PermissionError
ExportCsv ==
    /\ AtStep("export")
    /\ LET condition == files[CsvFile(entry)]
       IN  IF condition = "writable"
           THEN /\ written' = written \cup {CsvFile(entry)}
                /\ log' = Append(log, "Data saved")
                /\ step' = step + 1
                /\ fatal' = fatal
           ELSE IF Caught(entry, WriteError(condition))
           THEN /\ log' = Append(log, "Warning: Could not save")
                /\ step' = step + 1
                /\ UNCHANGED <<written, fatal>>
           ELSE /\ fatal' = WriteError(condition)
                /\ UNCHANGED <<written, log, step>>
    /\ UNCHANGED <<entry, files>>
    /\ UNCHANGED frameVars
    /\ UNCHANGED callVars

\* one of the three plot calls: plt.savefig(output_path, dpi=300)
GeneratePlot ==
    /\ AtStep("plot")
    /\ LET file == PlotFiles(entry)[PlotsBefore(entry, step) + 1]
       IN  IF files[file] = "writable"
           THEN /\ written' = written \cup {file}
                /\ step' = step + 1
                /\ fatal' = fatal
           ELSE /\ fatal' = WriteError(files[file])
                /\ UNCHANGED <<written, step>>
    /\ UNCHANGED <<entry, files, log>>
    /\ UNCHANGED frameVars
    /\ UNCHANGED callVars

\* the printed error-calculation example that ends main()
ErrorExample ==
    /\ AtStep("example")
    /\ log' = Append(log, "Done")
    /\ step' = step + 1
    /\ UNCHANGED <<entry, files, written, fatal>>
    /\ UNCHANGED frameVars
    /\ UNCHANGED callVars

MainNext ==
    \/ LoadData
    \/ ComputePhysicsOfTable
    \/ ComputePhysicsOfCopy
    \/ ExportCsv
    \/ GeneratePlot
    \/ ErrorExample

MainSpec == MainInit /\ [][MainNext]_vars

---------------------------------------------------------------------------
(* Vocabulary of the properties *)

\* s is a decimal numeral, with or without a sign, and encodes a number
IsNumeral(s) == IsNum(FloatStr(s))

\* the call has been made and has returned (not raised)
Returned(f) == pc = "done" /\ call = f /\ ret.exc = "none"
Called(f) == pc = "done" /\ call = f

Half(a) == Div(a, Num(2))
LeqNum(a, b) == ~RLt(b, a)

---------------------------------------------------------------------------
(* C1  parse_range on "a-b" *)

\* C1: for every string "a-b" of two numerals a <= b, parse_range returns
\* center (a+b)/2 and half-width (b-a)/2.
C1_IntervalCenterAndHalfWidth ==
    (Called("parse_range") /\ arg.t = "str") =>
        \A i \in 1..Len(arg.s) :
            LET sa == SubSeq(arg.s, 1, i - 1)
                sb == SubSeq(arg.s, i + 1, Len(arg.s))
                a == FloatStr(sa)
                b == FloatStr(sb)
            IN  (arg.s[i] = "-" /\ IsNumeral(sa) /\ IsNumeral(sb) /\ LeqNum(a, b)) =>
                    ret = Return(<<Half(Add(a, b)), Half(Sub(b, a))>>)

---------------------------------------------------------------------------
(* C2  parse_range on a single number *)

\* C2: for every string that is one numeral x (positive, zero or negative)
\* parse_range returns center x and half-width 0.
C2_SingleNumber ==
    (Called("parse_range") /\ arg.t = "str" /\ IsNumeral(arg.s)) =>
        ret = Return(<<FloatStr(arg.s), Num(0)>>)

---------------------------------------------------------------------------
(* C3  parse_range on malformed input *)

\* a non-empty piece of text that is no numeral
NonNumeric(p) == p # <<>> /\ ~IsNum(FloatUnsigned(p))

\* malformed input: a missing value, the empty string, non-numeric text, or
\* text with a hyphen and a non-numeric part
Malformed(x) ==
    IF x.t = "obj" THEN Undefined(x.v)
    ELSE \/ x.s = <<>>
         \/ \E i \in 1..Len(Split(x.s)) : NonNumeric(Split(x.s)[i])

\* C3: for every malformed input parse_range returns the undefined marker in
\* both fields and does not raise; never one field defined and the other not.
C3_MalformedIsUndefinedInBothFields ==
    Called("parse_range") =>
        /\ ret.exc = "none"
        /\ Malformed(arg) => ret = Return(<<NaN, NaN>>)
        /\ Undefined(ret.val[1]) <=> Undefined(ret.val[2])

---------------------------------------------------------------------------
(* C4  the friction coefficient and its propagated half-width *)

AllDefined(row) ==
    /\ Defined(row.Fr_avg) /\ Defined(row.Fr_delta)
    /\ Defined(row.Fn_avg) /\ Defined(row.Fn_delta)

\* C4: with all four inputs defined and Fn_center > 0 the call returns
\* mu_center = Fr_center/Fn_center and a non-negative mu_half-width whose
\* square is (Fr_hw/Fn_center)^2 + (Fr_center*Fn_hw/Fn_center^2)^2.
C4_MuAndDeltaMu ==
    (Called("calculate_mu_and_delta_mu") /\ AllDefined(arg) /\ arg.Fn_avg.n > 0) =>
        /\ ret.exc = "none"
        /\ ret.val[1] = Div(arg.Fr_avg, arg.Fn_avg)
        /\ NonNeg(ret.val[2])
        /\ Pow2(ret.val[2]) =
              Add(Pow2(Div(arg.Fr_delta, arg.Fn_avg)),
                  Pow2(Div(Mul(arg.Fr_avg, arg.Fn_delta), Mul(arg.Fn_avg, arg.Fn_avg))))

\* C4's case: both uncertainty terms contribute
C4_Witness ==
    /\ Returned("calculate_mu_and_delta_mu")
    /\ AllDefined(arg)
    /\ arg.Fn_avg = Rat(1, 2) /\ arg.Fr_avg = Num(3)
    /\ arg.Fr_delta = Rat(1, 2) /\ arg.Fn_delta = Rat(1, 2)
    /\ ret.val[1] = Num(6)
    /\ Pow2(ret.val[2]) = Num(37)

---------------------------------------------------------------------------
(* C5  mu is undefined unless the normal force is strictly positive *)

\* C5: with Fn_center <= 0, or Fr_center or Fn_center undefined, the call
\* returns undefined for both fields; a defined mu comes only from a
\* strictly positive Fn_center.
C5_MuUndefinedUnlessFnPositive ==
    Called("calculate_mu_and_delta_mu") =>
        /\ (\/ Undefined(arg.Fr_avg)
            \/ Undefined(arg.Fn_avg)
            \/ (Defined(arg.Fn_avg) /\ arg.Fn_avg.n <= 0))
              => ret = Return(<<NaN, NaN>>)
        /\ (ret.exc = "none" /\ Defined(ret.val[1]))
              => (Defined(arg.Fn_avg) /\ arg.Fn_avg.n > 0)

---------------------------------------------------------------------------
(* C6  normal force from mass *)

\* C6: for defined mass center m and half-width dm (grams) the call returns
\* m/1000*9.81 and dm/1000*9.81.
C6_NormalForceFromMass ==
    (Called("calculate_normal_force_and_delta") /\ Defined(arg[1]) /\ Defined(arg[2])) =>
        ret = Return(<<Rat(arg[1].n * 981, arg[1].d * 100000),
                       Rat(arg[2].n * 981, arg[2].d * 100000)>>)

\* C6's case: 616 g +- 0.1 g gives 6.04296 N +- 0.000981 N
C6_Witness ==
    /\ Returned("calculate_normal_force_and_delta")
    /\ arg = <<Num(616), Rat(1, 10)>>
    /\ ret.val = <<Rat(604296, 100000), Rat(981, 1000000)>>

---------------------------------------------------------------------------
(* C7  what becomes of an undefined input *)

SomeUndefined(vals) == \E i \in DOMAIN vals : Undefined(vals[i])
AllNaN(vals) == \A i \in DOMAIN vals : vals[i] = NaN
AllDefinedIn(vals) == \A i \in DOMAIN vals : Defined(vals[i])

\* the number of defined entries of a list of samples
DefinedCount(xs) == Cardinality({i \in DOMAIN xs : Defined(xs[i])})
\* the defined endpoints of a list of readings, pooled
Pooled(readings) == SelectSeq(Flatten(readings), Defined)
\* the readings with both endpoints defined
Complete(readings) == SelectSeq(readings, LAMBDA r : Defined(r[1]) /\ Defined(r[2]))
HasUndefinedEndpoint(readings) ==
    \E i \in DOMAIN readings : Undefined(readings[i][1]) \/ Undefined(readings[i][2])

---------------------------------------------------------------------------
(* C8  half-widths are non-negative *)

NonNegOrUndefined(v) == Undefined(v) \/ NonNeg(v)

\* C8: every half-width an operation produces is non-negative: that of
\* parse_range, of the normal force and of the confidence interval (given a
\* non-negative half-width to start from), of mu, Policy B's delta_fr for
\* readings in any endpoint order, and the SEM and c95 of Policy A.
C8_HalfWidthsNonNegative ==
    /\ Returned("parse_range") => NonNegOrUndefined(ret.val[2])
    /\ (Returned("calculate_normal_force_and_delta") /\ NonNegOrUndefined(arg[2]))
          => NonNegOrUndefined(ret.val[2])
    /\ Returned("calculate_mu_and_delta_mu") => NonNegOrUndefined(ret.val[2])
    /\ Returned("calculate_std_dev_and_sem") => NonNegOrUndefined(ret.val[2])
    /\ (Returned("calculate_confidence_interval") /\ NonNegOrUndefined(arg.sem))
          => NonNegOrUndefined(ret.val[1])
    /\ Returned("calculate_error_method_1")
          => (NonNegOrUndefined(ret.val[1].sem_fr) /\ NonNegOrUndefined(ret.val[1].c95_fr))
    /\ Returned("calculate_error_method_2") => NonNegOrUndefined(ret.val[1].delta_fr)

---------------------------------------------------------------------------
(* C9  Policy B *)

\* every complete reading is an interval lower <= upper
WellOrdered(readings) ==
    \A i \in DOMAIN readings :
        (Defined(readings[i][1]) /\ Defined(readings[i][2]))
            => LeqNum(readings[i][1], readings[i][2])

\* the readings 3.0-3.3, 2.95-3.4, 2.95-3.4
ExampleReadings ==
    << <<Num(3), Rat(33, 10)>>, <<Rat(59, 20), Rat(17, 5)>>, <<Rat(59, 20), Rat(17, 5)>> >>

\* C9: for readings (lower <= upper) of which at least one is complete,
\* mean_fr is the average of the centers of the complete readings and
\* delta_fr is half the width of the widest of them; the example readings
\* give delta_fr = 0.225.
C9_PolicyBMeanAndWidestHalfWidth ==
    (Called("calculate_error_method_2") /\ WellOrdered(arg) /\ Complete(arg) # <<>>) =>
        LET rs == Complete(arg)
            centers == [i \in DOMAIN rs |-> Half(Add(rs[i][1], rs[i][2]))]
            halves == [i \in DOMAIN rs |-> Half(Sub(rs[i][2], rs[i][1]))]
        IN  /\ ret.exc = "none"
            /\ ret.val[1].mean_fr = Div(SumSeq(centers), Num(Len(rs)))
            /\ \A i \in DOMAIN rs : LeqNum(halves[i], ret.val[1].delta_fr)
            /\ \E i \in DOMAIN rs : halves[i] = ret.val[1].delta_fr
            /\ arg = ExampleReadings => ret.val[1].delta_fr = Rat(225, 1000)

\* C9's case: the example readings
C9_Witness ==
    /\ Returned("calculate_error_method_2")
    /\ arg = ExampleReadings
    /\ ret.val[1].delta_fr = Rat(9, 40)
    /\ ret.val[1].mean_fr = Rat(19, 6)

---------------------------------------------------------------------------
(* C10  Policy A *)

\* C10: the defined endpoints of all readings form one pooled sample set of
\* size N, and mean_fr, std_dev_fr, sem_fr and c95_fr are all computed over
\* that set with that N: mean = sum/N, std^2 = sum((x-mean)^2)/N,
\* sem^2 = std^2/N, c95 = t(0.975, N-1)*sem; three complete readings give
\* N = 6, that is t with 5 degrees of freedom.
C10_PolicyAPooledStatistics ==
    (Called("calculate_error_method_1") /\ Len(Pooled(arg)) >= 2) =>
        LET xs == Pooled(arg)
            N == Len(xs)
            r == ret.val[1]
            devs == [i \in DOMAIN xs |-> Pow2(Sub(xs[i], r.mean_fr))]
        IN  /\ ret.exc = "none"
            /\ Mul(r.mean_fr, Num(N)) = SumSeq(xs)
            /\ NonNeg(r.std_dev_fr)
            /\ Mul(Pow2(r.std_dev_fr), Num(N)) = SumSeq(devs)
            /\ NonNeg(r.sem_fr)
            /\ Mul(Pow2(r.sem_fr), Num(N)) = Pow2(r.std_dev_fr)
            /\ r.c95_fr = Mul(t_ppf(975, N - 1), r.sem_fr)
            /\ (Len(arg) = 3 /\ Complete(arg) = arg) =>
                  (N = 6 /\ r.c95_fr = Mul(Rat(2571, 1000), r.sem_fr))

\* C10's case: three complete readings, six pooled endpoints
C10_Witness ==
    /\ Returned("calculate_error_method_1")
    /\ arg = ExampleReadings
    /\ Len(Pooled(arg)) = 6
    /\ ret.val[1].mean_fr = Rat(19, 6)
    /\ Defined(ret.val[1].c95_fr) /\ ret.val[1].c95_fr.n > 0

---------------------------------------------------------------------------
(* C11  population standard deviation and standard error *)

\* C11: for every sequence with N >= 2 defined entries the call returns the
\* population standard deviation, std^2 = sum((x - mean)^2)/N with N (not
\* N - 1) the number of defined entries, and SEM with SEM^2 = std^2/N.
C11_PopulationStdDevAndSem ==
    (Called("calculate_std_dev_and_sem") /\ DefinedCount(arg) >= 2) =>
        LET xs == SelectSeq(arg, Defined)
            N == Len(xs)
            mean == Div(SumSeq(xs), Num(N))
            devs == [i \in DOMAIN xs |-> Pow2(Sub(xs[i], mean))]
        IN  /\ ret.exc = "none"
            /\ NonNeg(ret.val[1])
            /\ Mul(Pow2(ret.val[1]), Num(N)) = SumSeq(devs)
            /\ NonNeg(ret.val[2])
            /\ Mul(Pow2(ret.val[2]), Num(N)) = Pow2(ret.val[1])

\* C11's case: the samples 1, 2, 4 with an undefined entry among them:
\* N = 3, std^2 = 14/9, SEM^2 = 14/27
C11_Witness ==
    /\ Returned("calculate_std_dev_and_sem")
    /\ arg = <<Num(1), NaN, Num(2), Num(4)>>
    /\ Pow2(ret.val[1]) = Rat(14, 9)
    /\ Pow2(ret.val[2]) = Rat(14, 27)

---------------------------------------------------------------------------
(* C12  fewer than two valid samples *)

\* C12: with fewer than 2 valid samples every statistic is undefined:
\* calculate_std_dev_and_sem returns (undefined, undefined),
\* calculate_confidence_interval and get_t_factor return undefined for
\* N < 2, and calculate_error_method_1 returns all four fields undefined
\* when fewer than 2 endpoints are defined.
C12_FewerThanTwoSamplesUndefined ==
    /\ (Called("calculate_std_dev_and_sem") /\ DefinedCount(arg) < 2)
          => ret = Return(<<NaN, NaN>>)
    /\ (Called("calculate_confidence_interval") /\ arg.N < 2)
          => ret = Return(<<NaN>>)
    /\ (Called("get_t_factor") /\ arg.N < 2)
          => ret = Return(<<NaN>>)
    /\ (Called("calculate_error_method_1") /\ Len(Pooled(arg)) < 2)
          => ret = ReturnDict([mean_fr |-> NaN, std_dev_fr |-> NaN,
                               sem_fr |-> NaN, c95_fr |-> NaN])

\* C12's case: one defined sample among undefined ones
C12_Witness ==
    /\ Returned("calculate_std_dev_and_sem")
    /\ Len(arg) >= 2
    /\ DefinedCount(arg) = 1
    /\ ret.val = <<NaN, NaN>>

---------------------------------------------------------------------------
(* C13  the confidence interval is t * SEM *)

\* the quantile of the two-sided interval at a level given in percent, in
\* thousandths: (1 + level)/2
TwoSidedQuantile(level) ==
    CASE level = 90 -> 950
      [] level = 95 -> 975
      [] level = 99 -> 995

\* C13: for every N >= 2, SEM and confidence level the call returns t * SEM
\* with t the Student-t quantile at (1 + level)/2 (0.975 at 95 %) with
\* N - 1 degrees of freedom, which is exactly get_t_factor(N, level) * SEM.
C13_ConfidenceIntervalIsTTimesSem ==
    /\ (Called("calculate_confidence_interval") /\ arg.N >= 2 /\ arg.sem # None) =>
          LET t == t_ppf(TwoSidedQuantile(arg.confidence_level), arg.N - 1)
          IN  /\ ret = Return(<<Mul(t, arg.sem)>>)
              /\ get_t_factor(arg.N, arg.confidence_level) = Return(<<t>>)
    /\ (Called("get_t_factor") /\ arg.N >= 2) =>
          ret = Return(<<t_ppf(TwoSidedQuantile(arg.confidence_level), arg.N - 1)>>)

\* C13's case: N = 6 at 95 %: t(0.975, 5) = 2.571, SEM = 0.5
C13_Witness ==
    /\ Returned("calculate_confidence_interval")
    /\ arg = [sem |-> Rat(1, 2), N |-> 6, confidence_level |-> 95]
    /\ ret.val = <<Rat(2571, 2000)>>

---------------------------------------------------------------------------
(* C14  Policy B marks the statistics as not considered *)

\* C14: for every input to Policy B, whether or not any reading in it is
\* fully defined, the result carries std_dev_fr, sem_fr and c95_fr, each set
\* to the marker 'nicht betrachtet' and never to a computed number.
C14_PolicyBMarksStatisticsNotConsidered ==
    Called("calculate_error_method_2") =>
        /\ ret.exc = "none"
        /\ {"std_dev_fr", "sem_fr", "c95_fr"} \subseteq DOMAIN ret.val[1]
        /\ ret.val[1].std_dev_fr = NichtBetrachtet
        /\ ret.val[1].sem_fr = NichtBetrachtet
        /\ ret.val[1].c95_fr = NichtBetrachtet

---------------------------------------------------------------------------
(* C15  Policy B's half-width against Policy A's *)

\* every reading is complete and is an interval lower <= upper
FullyDefinedIntervals(readings) ==
    /\ readings # <<>>
    /\ Complete(readings) = readings
    /\ WellOrdered(readings)

\* one reading, the widest, contains all the others
Nested(readings) ==
    \E i \in DOMAIN readings : \A j \in DOMAIN readings :
        /\ LeqNum(readings[i][1], readings[j][1])
        /\ LeqNum(readings[j][2], readings[i][2])

\* some reading has lower < upper
SomePositiveWidth(readings) ==
    \E i \in DOMAIN readings : RLt(readings[i][1], readings[i][2])

\* Policy A's result for the same readings
PolicyA(readings) == calculate_error_method_1(readings).val[1]

\* C15 as stated: for every list of fully defined readings (low <= high)
\* Policy B's delta_fr is at least Policy A's sem_fr, and at least its
\* c95_fr, computed over the pooled endpoints of the same readings.
C15_PolicyBHalfWidthAtLeastPolicyA ==
    (Called("calculate_error_method_2") /\ FullyDefinedIntervals(arg)) =>
        /\ RealLe(PolicyA(arg).sem_fr, ret.val[1].delta_fr)
        /\ RealLe(PolicyA(arg).c95_fr, ret.val[1].delta_fr)

\* C15 as amended: for every list of fully defined readings (low <= high)
\* that all lie within the widest of them, that one having low < high,
\* Policy B's delta_fr is at least Policy A's sem_fr.
C15_NestedReadingsDeltaAtLeastSem ==
    (/\ Called("calculate_error_method_2")
     /\ FullyDefinedIntervals(arg)
     /\ Nested(arg)
     /\ SomePositiveWidth(arg)) =>
        /\ ret.exc = "none"
        /\ RealLe(PolicyA(arg).sem_fr, ret.val[1].delta_fr)

\* C15's case: the readings 3.0-3.3, 2.95-3.4, 2.95-3.4, the first within
\* the other two: delta_fr = 0.225 and 0 < sem_fr <= delta_fr
C15_Witness ==
    /\ Returned("calculate_error_method_2")
    /\ arg = ExampleReadings
    /\ Nested(arg)
    /\ ret.val[1].delta_fr = Rat(9, 40)
    /\ RealLess(Num(0), PolicyA(arg).sem_fr)
    /\ RealLess(PolicyA(arg).sem_fr, ret.val[1].delta_fr)

---------------------------------------------------------------------------
(* C16  the two policies give different half-widths *)

\* at least two readings have intervals of different width
WidthsDiffer(readings) ==
    \E i, j \in DOMAIN readings : ~NumEq(RangeOf(readings[i]), RangeOf(readings[j]))

\* C16 as stated: for every list of fully defined readings of which at
\* least two have intervals of different width, Policy A's half-widths
\* sem_fr and c95_fr both differ from Policy B's delta_fr.
C16_PoliciesGiveDifferentHalfWidths ==
    (/\ Called("calculate_error_method_2")
     /\ FullyDefinedIntervals(arg)
     /\ WidthsDiffer(arg)) =>
        /\ ~RealEq(PolicyA(arg).sem_fr, ret.val[1].delta_fr)
        /\ ~RealEq(PolicyA(arg).c95_fr, ret.val[1].delta_fr)

\* C16 as amended: for every list of fully defined readings (low <= high)
\* that all lie within the widest of them and of which at least two have
\* intervals of different width, Policy A's sem_fr is strictly smaller than
\* Policy B's delta_fr, hence a different value.
C16_NestedReadingsSemBelowDelta ==
    (/\ Called("calculate_error_method_2")
     /\ FullyDefinedIntervals(arg)
     /\ Nested(arg)
     /\ WidthsDiffer(arg)) =>
        /\ ret.exc = "none"
        /\ RealLess(PolicyA(arg).sem_fr, ret.val[1].delta_fr)

\* C16's case: the readings 1-2 and 1-1: delta_fr = 0.5, sem_fr^2 = 3/64
C16_Witness ==
    /\ Returned("calculate_error_method_2")
    /\ arg = << <<Num(1), Num(2)>>, <<Num(1), Num(1)>> >>
    /\ ret.val[1].delta_fr = Rat(1, 2)
    /\ Pow2(PolicyA(arg).sem_fr) = Rat(3, 64)

---------------------------------------------------------------------------
(* C17  nothing is fatal at the computation layer *)

\* the operations of the computation layer
ComputationLayer ==
    {"parse_range", "calculate_normal_force_and_delta", "calculate_mu_and_delta_mu",
     "calculate_std_dev_and_sem", "calculate_confidence_interval",
     "calculate_error_method_1", "calculate_error_method_2"}

\* C17: no operation of the computation layer raises, whatever combination
\* of numbers and undefined or missing values (None included) it is handed;
\* the only failure outcome is an undefined result.
C17_NoOperationRaises ==
    (pc = "done" /\ call \in ComputationLayer) => ret.exc = "none"

---------------------------------------------------------------------------
(* C20  normal-force propagation is linear *)

\* the factors a mass and its half-width are scaled by
ScaleFactors == {Num(-1), Num(0), Rat(1, 2), Num(2), Num(3)}

\* C20: for every mass center m, half-width dm and factor k,
\* calculate_normal_force_and_delta(k*m, k*dm) equals k times
\* calculate_normal_force_and_delta(m, dm) in both outputs.
C20_NormalForceIsLinear ==
    (Called("calculate_normal_force_and_delta") /\ arg[1] # None /\ arg[2] # None) =>
        /\ ret.exc = "none"
        /\ \A k \in ScaleFactors :
              calculate_normal_force_and_delta(Mul(k, arg[1]), Mul(k, arg[2]))
                  = Return(<<Mul(k, ret.val[1]), Mul(k, ret.val[2])>>)

\* C20's case: 5 g +- 0.1 g gives 0.04905 N +- 0.000981 N, and three times
\* the mass and half-width three times as much
C20_Witness ==
    /\ Returned("calculate_normal_force_and_delta")
    /\ arg = <<Num(5), Rat(1, 10)>>
    /\ ret.val = <<Rat(4905, 100000), Rat(981, 1000000)>>
    /\ calculate_normal_force_and_delta(Num(15), Rat(3, 10))
          = Return(<<Rat(3 * 4905, 100000), Rat(3 * 981, 1000000)>>)

---------------------------------------------------------------------------
(* C18  a failed export does not block the plots *)

\* the place of the export among the steps of main()
ExportStep(e) == CHOOSE i \in DOMAIN Steps(e) : Steps(e)[i] = "export"

\* the run ended in the export step, by an exception
EndedInExport == fatal # "none" /\ step = ExportStep(entry)

\* the export has been attempted and the file could not be written
ExportFailed ==
    /\ entry \in Entries
    /\ files[CsvFile(entry)] # "writable"
    /\ (step > ExportStep(entry) \/ EndedInExport)

\* the run is over: main() returned or an exception ended it
RunEnded == entry \in Entries /\ (fatal # "none" \/ step > Len(Steps(entry)))

\* every plot file can be written
PlotsWritable == \A i \in 1..3 : files[PlotFiles(entry)[i]] = "writable"

\* C18: if writing the export file fails, the failure is caught, a warning
\* is logged and the run continues, so that every plot step still executes:
\* a failed export never prevents plot generation.
C18_FailedExportDoesNotBlockPlots ==
    ExportFailed =>
        /\ ~EndedInExport
        /\ \E i \in DOMAIN log : log[i] = "Warning: Could not save"
        /\ (RunEnded /\ PlotsWritable) => \A i \in 1..3 : PlotFiles(entry)[i] \in written

---------------------------------------------------------------------------
(* C19  The end-to-end scenario *)

\* the row of the scenario: the reading "1.65-1.9", the mass 616 g weighed
\* to 0.1 g
Scenario ==
    /\ Called("main")
    /\ arg = [Kraft_N_Range |-> <<"1", ".", "6", "5", "-", "1", ".", "9">>,
              Mass_g_Avg |-> Num(616), Mass_g_Delta |-> Rat(1, 10)]

\* v >= 0 rounded to four decimals is units / 10000
RoundsTo4(v, units) ==
    /\ RealLe(Rat(2 * units - 1, 20000), v)
    /\ RealLess(v, Rat(2 * units + 1, 20000))

\* the reading is (1.775, 0.125), the normal force has the half-width
\* 0.000981 N, mu has the half-width 0.0207 to four decimals, and in it the
\* term of the force uncertainty is larger than the term of the normal force
ScenarioCommon ==
    /\ ret.exc = "none"
    /\ ret.val[1] = Rat(1775, 1000)
    /\ ret.val[2] = Rat(125, 1000)
    /\ ret.val[4] = Rat(981, 1000000)
    /\ RoundsTo4(ret.val[6], 207)
    /\ RealLess(MuTerm2(ret.val[1], ret.val[3], ret.val[4]),
                MuTerm1(ret.val[2], ret.val[3]))

\* C19 as stated: in the scenario the normal force is 6.0426 N (to four
\* decimals) and mu is 0.2938 to four decimals, the rest as above.  The code
\* computes 616 / 1000 * 9.81 = 6.04296 N and mu = 1.775 / 6.04296 =
\* 0.29373..., so the statement is violated.
C19_EndToEndScenario ==
    Scenario =>
        /\ ScenarioCommon
        /\ RoundsTo4(ret.val[3], 60426)
        /\ RoundsTo4(ret.val[5], 2938)

\* C19 amended: in the scenario the normal force is 6.04296 N with the
\* half-width 0.000981 N, the reading is (1.775, 0.125), mu is 0.2937 and its
\* half-width 0.0207 to four decimals, and the term of the force uncertainty
\* is larger than the term of the normal force.
C19_EndToEndScenarioAmended ==
    Scenario =>
        /\ ScenarioCommon
        /\ ret.val[3] = Rat(604296, 100000)
        /\ RoundsTo4(ret.val[5], 2937)

\* the scenario's row has been computed
C19_Witness == Scenario /\ ret.exc = "none" /\ IsWide(ret.val[6])

---------------------------------------------------------------------------
(* C21  exact inputs give an exact mu *)

\* both half-widths handed to calculate_mu_and_delta_mu are 0
ExactInputs(row) == row.Fr_delta = Num(0) /\ row.Fn_delta = Num(0)

\* C21: for every defined Fr_center and Fn_center for which the call returns
\* a defined mu_center, Fr_half-width = 0 and Fn_half-width = 0 give
\* mu_half-width = 0.
C21_ZeroHalfWidthsGiveZeroHalfWidth ==
    (/\ Called("calculate_mu_and_delta_mu")
     /\ Defined(arg.Fr_avg) /\ Defined(arg.Fn_avg)
     /\ ExactInputs(arg)) =>
        /\ ret.exc = "none"
        /\ Defined(ret.val[1]) => ret.val[2] = Num(0)

\* C21's case: a non-zero mu computed from exact inputs
C21_Witness ==
    /\ Returned("calculate_mu_and_delta_mu")
    /\ arg.Fr_avg = Num(3) /\ arg.Fn_avg = Rat(1, 2)
    /\ ExactInputs(arg)
    /\ ret.val[1] = Num(6)
    /\ ret.val[2] = Num(0)

---------------------------------------------------------------------------
(* C22  the confidence interval against the confidence level *)

\* a < b for two numbers of either sign
SignedLess(a, b) ==
    IF Sign(a) # Sign(b) THEN Sign(a) < Sign(b)
    ELSE IF Sign(a) > 0 THEN RealLess(a, b)
    ELSE RealLess(b, a)

\* the half-width the call returns for the same SEM and N at another level
HalfWidthAt(level) ==
    calculate_confidence_interval(arg.sem, arg.N, level).val[1]

\* the half-width returned is below the one of every higher level
BelowHigherLevels ==
    \A level \in Levels :
        arg.confidence_level < level => SignedLess(ret.val[1], HalfWidthAt(level))

\* C22 as stated: for every N >= 2 and every SEM (a number >= 0, as a
\* standard error is) the half-width increases with the confidence level.
\* A SEM of 0, which calculate_std_dev_and_sem returns for equal samples,
\* gives the half-width 0 at every level, so the statement is violated.
C22_HalfWidthIncreasesWithLevel ==
    (Called("calculate_confidence_interval") /\ arg.N >= 2 /\ NonNeg(arg.sem)) =>
        /\ ret.exc = "none"
        /\ BelowHigherLevels

\* C22 amended: for every N >= 2 and every SEM > 0 the half-width increases
\* with the confidence level; for SEM = 0 it is 0 at every level.
C22_PositiveSemHalfWidthIncreasesWithLevel ==
    (Called("calculate_confidence_interval") /\ arg.N >= 2 /\ Defined(arg.sem)) =>
        /\ ret.exc = "none"
        /\ Sign(arg.sem) > 0 => BelowHigherLevels
        /\ Sign(arg.sem) = 0 =>
              \A level \in Levels : ret.val[1] = Num(0) /\ HalfWidthAt(level) = Num(0)

\* C22's case: SEM = 0.5 and N = 6 at 90 %: 1.0075 < 1.2855 < 2.016
C22_Witness ==
    /\ Returned("calculate_confidence_interval")
    /\ arg.sem = Rat(1, 2) /\ arg.N = 6 /\ arg.confidence_level = 90
    /\ ret.val[1] = Rat(2015, 2000)
    /\ HalfWidthAt(95) = Rat(2571, 2000)
    /\ HalfWidthAt(99) = Rat(4032, 2000)

---------------------------------------------------------------------------
(* C23  the two policies are not mixed within one value *)

\* the statistics that belong to Policy A
StatisticFields == {"std_dev_fr", "sem_fr", "c95_fr"}

\* Policy B's result for the intervals the example builds from its rows
PolicyB(rows) == calculate_error_method_2(fr_intervals(rows)).val[1]

\* C23: no result of calculate_error_method_1 carries a delta_fr; no result
\* of calculate_error_method_2 carries a number as std_dev_fr, sem_fr or
\* c95_fr; and the friction force that error_analysis_example hands to
\* calculate_mu_and_delta_mu has Policy B's mean_fr as its center and
\* Policy B's delta_fr as its half-width.
C23_PoliciesNeverMixed ==
    /\ Returned("calculate_error_method_1") =>
            "delta_fr" \notin DOMAIN ret.val[1]
    /\ Returned("calculate_error_method_2") =>
            \A f \in StatisticFields \cap DOMAIN ret.val[1] :
                ~IsNum(ret.val[1][f]) /\ ~isna(ret.val[1][f])
    /\ Called("error_analysis_example") =>
            /\ ret.exc = "none"
            /\ NumEq(ret.val[1], PolicyB(GroupRows(arg)).mean_fr)
            /\ NumEq(ret.val[2], PolicyB(GroupRows(arg)).delta_fr)
            /\ ret.val[3] = Div(ret.val[1], fn_avg_placeholder)

\* C23's case: the example for the group Weiss, B+1+2+3+4 with the readings
\* 30-3.3, 2.95-3.4, 2.95-3.4: the center is 23/3 N, the mean of the
\* midpoints 16.65, 3.175, 3.175, and the half-width is 13.35 N, half the
\* widest range, which differs from the mean 4.6 N of the half-widths
C23_Witness ==
    /\ Returned("error_analysis_example")
    /\ arg[1] = <<"3", "0", "-", "3", ".", "3">>
    /\ ret.val[1] = Rat(23, 3)
    /\ ret.val[2] = Rat(267, 20)
    /\ PolicyB(GroupRows(arg)).delta_fr = Rat(267, 20)
    /\ np_mean(all_deltas(GroupRows(arg))) = Rat(23, 5)

---------------------------------------------------------------------------
(* C24  the readings are never changed *)

\* every row and every column of the frame before is in the frame after,
\* with its value
Kept(before, after) ==
    /\ Len(after) = Len(before)
    /\ \A i \in 1..Len(before) : \A c \in DOMAIN before[i] :
          c \in DOMAIN after[i] /\ after[i][c] = before[i][c]

---------------------------------------------------------------------------
(* C25  the order of the samples and of the readings does not matter *)

\* the list with its first two entries exchanged
SwapFirstTwo(xs) ==
    IF Len(xs) < 2 THEN xs ELSE <<xs[2], xs[1]>> \o SubSeq(xs, 3, Len(xs))

\* the list with its first entry moved to the end
Rotate(xs) ==
    IF xs = <<>> THEN xs ELSE Tail(xs) \o <<Head(xs)>>

\* the same value: the same number, or the same undefined value or marker
SameValue(a, b) == a = b \/ (IsNum(a) /\ IsNum(b) /\ NumEq(a, b))

\* the same result of calculate_std_dev_and_sem
SameTuple(r, other) ==
    /\ r.exc = other.exc
    /\ Len(r.val) = Len(other.val)
    /\ \A i \in 1..Len(r.val) : SameValue(r.val[i], other.val[i])

\* the same result of a policy: the same keys with the same values
SameDict(r, other) ==
    /\ r.exc = other.exc
    /\ r.exc = "none" =>
          /\ DOMAIN r.val[1] = DOMAIN other.val[1]
          /\ \A f \in DOMAIN r.val[1] : SameValue(r.val[1][f], other.val[1][f])

---------------------------------------------------------------------------
(* C26  the two policies give the same mean *)

\* no reading has exactly one undefined endpoint
NoHalfDefinedReading(readings) ==
    \A i \in DOMAIN readings : Undefined(readings[i][1]) <=> Undefined(readings[i][2])

\* the same mean: the same number, or undefined on both sides
SameMean(a, b) ==
    IF Undefined(a) \/ Undefined(b) THEN Undefined(a) /\ Undefined(b)
    ELSE NumEq(a, b)

\* the mean of the pooled defined endpoints, undefined when there is none
PooledMean(readings) ==
    IF Pooled(readings) = <<>> THEN NaN ELSE np_mean(Pooled(readings))

\* C26: for every list of readings of which none has exactly one undefined
\* endpoint, and so for every list of fully defined readings, the mean_fr
\* that Policy B returns and the mean_fr that Policy A returns are both the
\* mean of the pooled endpoints of the list, hence equal; both are undefined
\* when no reading is defined.  Both policies are called with every list
\* up to the bound.
C26_PoliciesGiveSameMean ==
    ((Called("calculate_error_method_2") \/ Called("calculate_error_method_1"))
        /\ NoHalfDefinedReading(arg)) =>
        /\ ret.exc = "none"
        /\ SameMean(ret.val[1].mean_fr, PooledMean(arg))

\* C26's case: the readings 0-4, nan-nan, 10-13: both means are 6.75; with
\* the readings 1-None and 0-4 they differ, 2 for Policy B and 5/3 for
\* Policy A
C26_Witness ==
    /\ Returned("calculate_error_method_2")
    /\ arg = << <<Num(0), Num(4)>>, <<NaN, NaN>>, <<Num(10), Num(13)>> >>
    /\ ret.val[1].mean_fr = Rat(27, 4)
    /\ PolicyA(arg).mean_fr = Rat(27, 4)
    /\ calculate_error_method_2(<< <<Num(1), None>>, <<Num(0), Num(4)>> >>).val[1].mean_fr = Num(2)
    /\ PolicyA(<< <<Num(1), None>>, <<Num(0), Num(4)>> >>).mean_fr = Rat(5, 3)

---------------------------------------------------------------------------
(* C27  parse_range does not look at the order of the numerals *)

RECURSIVE JoinHyphen(_)
\* the pieces written one after the other with hyphens between them
JoinHyphen(pieces) ==
    IF Len(pieces) = 1 THEN pieces[1]
    ELSE pieces[1] \o <<"-">> \o JoinHyphen(Tail(pieces))

\* the string is k >= 2 non-negative numerals separated by hyphens
NumeralsWithHyphens(x) ==
    /\ x.t = "str"
    /\ HasHyphen(x.s)
    /\ \A c \in {x.s[i] : i \in 1..Len(x.s)} : c \in Digits \cup {".", "-"}
    /\ LET pieces == Split(x.s)
       IN  \A i \in 1..Len(pieces) : IsNum(FloatUnsigned(pieces[i]))

\* the numbers the numerals stand for
PartsOf(x) ==
    LET pieces == Split(x.s)
    IN  [i \in 1..Len(pieces) |-> FloatUnsigned(pieces[i])]

\* the largest and the smallest of the numbers
Largest(parts) ==
    parts[CHOOSE i \in DOMAIN parts : \A j \in DOMAIN parts : NumLe(parts[j], parts[i])]
Smallest(parts) ==
    parts[CHOOSE i \in DOMAIN parts : \A j \in DOMAIN parts : NumLe(parts[i], parts[j])]

\* C27: for a string of k >= 2 non-negative numerals separated by hyphens
\* parse_range returns the mean of all k numbers and half the difference of
\* the largest and the smallest, both defined, and it returns the same for
\* the string with its numerals in another order (the first two exchanged,
\* or the first moved to the end, which generate every order).
C27_ParseRangeSymmetric ==
    (Called("parse_range") /\ NumeralsWithHyphens(arg)) =>
        LET pieces == Split(arg.s)
            parts == PartsOf(arg)
        IN  /\ ret.exc = "none"
            /\ Defined(ret.val[1]) /\ Defined(ret.val[2])
            /\ NumEq(ret.val[1], Div(SumSeq(parts), Num(Len(parts))))
            /\ NumEq(ret.val[2], Div(Sub(Largest(parts), Smallest(parts)), Num(2)))
            /\ SameTuple(ret, parse_range(Str(JoinHyphen(SwapFirstTwo(pieces)))))
            /\ SameTuple(ret, parse_range(Str(JoinHyphen(Rotate(pieces)))))

\* C27's case: '2-1-0', three numerals in falling order: the mean is 1 and
\* the half-width is 1, as for '0-1-2'; and the table entry '30-3.3' gives
\* 16.65 and 13.35
C27_Witness ==
    /\ Returned("parse_range")
    /\ arg = Str(<<"2", "-", "1", "-", "0">>)
    /\ ret.val = <<Num(1), Num(1)>>
    /\ parse_range(Str(<<"0", "-", "1", "-", "2">>)).val = <<Num(1), Num(1)>>
    /\ parse_range(Str(<<"3", "0", "-", "3", ".", "3">>)).val = <<Rat(333, 20), Rat(267, 20)>>

=============================================================================
